---- MODULE Spec2Model ----
(***************************************************************************)
(* Model of the ATM session controller of src/project.cpp: ATMController   *)
(* driving the in-memory MockBankGateway and MockCashDispenser through the *)
(* ICardReader interface.  Every public method of ATMController is one     *)
(* action; a thrown exception is recorded as the error kind of the call.   *)
(***************************************************************************)
EXTENDS Integers, Sequences, FiniteSets, TLC

\* ---------------------------------------------------------------- bounds
\* Deposits are only explored while the credited balance stays <= MaxBalance.
MaxBalance == 300
\* The count of consecutive wrong PIN attempts saturates at MaxWrongPins.
MaxWrongPins == 3
\* The count of completed card cycles (ejectCard calls) saturates at MaxCycles.
MaxCycles == 2
\* Dispenser faults are only explored while the total debited stays <= MaxDebited.
MaxDebited == 100

\* ------------------------------------------------------- program constants
\* MockCashDispenser::cashOnHand initial value.
InitialCash == 200
\* MockBankGateway(): balances["ACC-111"] = 100.
InitialBalance == 100
\* MockBankGateway(): pins["CARD-1234"] = "4321".
pins == [c \in {"CARD-1234"} |-> "4321"]

\* ------------------------------------------------------------ input sets
\* Identifiers ICardReader::readCard may yield: the mock's card, a card the
\* bank does not know, and the empty identifier.
ReaderIds == {"", "CARD-1234", "CARD-0000"}
\* PINs typed by the caller.
PinInputs == {"4321", "0000"}
\* Account identifiers passed to selectAccount.
AccountInputs == {"", "ACC-111", "ACC-999"}
\* Amounts passed to deposit and withdraw.
Amounts == {-5, 0, 100, 200}

VARIABLES
    cardNumber,       \* ATMController::cardNumber
    authenticated,    \* ATMController::authenticated
    selectedAccount,  \* ATMController::selectedAccount
    balances,         \* MockBankGateway::balances (a map: its domain grows)
    cashOnHand,       \* MockCashDispenser::cashOnHand
    last,             \* the last call: method, arguments, outcome, collaborator calls
    pre,              \* the program state right before the last call
    pinOk,            \* the most recent enterPin since the last insertCard returned true
    acctChosen,       \* a selectAccount returned normally since the last insertCard/ejectCard
    wrongPins,        \* consecutive enterPin calls that returned false (saturating)
    net,              \* per account: successful deposits minus successful withdrawals
    debited,          \* total amount passed to BankGateway::debit
    cycles            \* ejectCard calls so far (saturating)

prog == <<cardNumber, authenticated, selectedAccount, balances, cashOnHand>>
vars == <<cardNumber, authenticated, selectedAccount, balances, cashOnHand,
          last, pre, pinOk, acctChosen, wrongPins, net, debited, cycles>>

\* The program state as a record (what `pre` stores), with the method called
\* before it.
Snapshot ==
    [cardNumber |-> cardNumber, authenticated |-> authenticated,
     selectedAccount |-> selectedAccount, balances |-> balances,
     cashOnHand |-> cashOnHand, pinOk |-> pinOk, acctChosen |-> acctChosen,
     wrongPins |-> wrongPins, lastOp |-> last.op]

\* Record the call that was just made and the state it started from.
\*   o: method   s: string argument   a: integer argument   e: error kind
\*   b: boolean result   v: integer result   c: collaborator calls, in order
Observe(o, s, a, e, b, v, c) ==
    /\ last' = [op |-> o, str |-> s, amt |-> a, err |-> e, ok |-> b, val |-> v,
                calls |-> c]
    /\ pre' = Snapshot
    /\ net' = IF o \in {"deposit", "withdraw"} /\ e = "none"
              THEN [net EXCEPT ![selectedAccount] =
                        IF o = "deposit" THEN @ + a ELSE @ - a]
              ELSE net
    /\ debited' = IF \E i \in 1..Len(c) : c[i] = "debit" THEN debited + a ELSE debited
    /\ cycles' = IF o = "ejectCard" /\ cycles < MaxCycles THEN cycles + 1 ELSE cycles

\* --------------------------------------------------------- MockBankGateway
\* pins.find(cardNumber) != end && it->second == pin
validatePin_noLookup(card, pin) ==
    \E c \in DOMAIN pins : pins[c] = pin

validatePin(card, pin) ==
    card \in DOMAIN pins /\ pins[card] = pin

\* balances.at(accountId) throws std::out_of_range for an unknown account.
knownAccount(bals, acct) == acct \in DOMAIN bals

\* balances[accountId] -= amount : operator[] inserts a zero entry first.
debit(bals, acct, amount) ==
    [a \in DOMAIN bals \cup {acct} |->
        IF a = acct
        THEN (IF acct \in DOMAIN bals THEN bals[acct] ELSE 0) - amount
        ELSE bals[a]]

\* The balance map::operator[] value-initialises for an account the constructor
\* did not set up.
StartBalance(acct) == IF acct = "ACC-111" THEN InitialBalance ELSE 0

credit_assign(bals, acct, amount) ==
    [a \in DOMAIN bals \cup {acct} |-> IF a = acct THEN amount ELSE bals[a]]

\* balances[accountId] += amount : operator[] inserts a zero entry first.
credit(bals, acct, amount) ==
    [a \in DOMAIN bals \cup {acct} |->
        IF a = acct
        THEN (IF acct \in DOMAIN bals THEN bals[acct] ELSE 0) + amount
        ELSE bals[a]]

\* ------------------------------------------------------- MockCashDispenser
hasCash(amount) == amount <= cashOnHand

Init ==
    /\ cardNumber = ""
    /\ authenticated = FALSE
    /\ selectedAccount = ""
    /\ balances = [a \in {"ACC-111"} |-> InitialBalance]
    /\ cashOnHand = InitialCash
    /\ last = [op |-> "init", str |-> "", amt |-> 0, err |-> "none", ok |-> FALSE,
               val |-> 0, calls |-> <<>>]
    /\ pre = [cardNumber |-> "", authenticated |-> FALSE, selectedAccount |-> "",
              balances |-> [a \in {"ACC-111"} |-> InitialBalance],
              cashOnHand |-> InitialCash, pinOk |-> FALSE, acctChosen |-> FALSE,
              wrongPins |-> 0, lastOp |-> "init"]
    /\ pinOk = FALSE
    /\ acctChosen = FALSE
    /\ wrongPins = 0
    /\ net = [a \in AccountInputs |-> 0]
    /\ debited = 0
    /\ cycles = 0

\* ----------------------------------------------------------- ATMController
insertCard_keepAuth ==
    \E id \in ReaderIds :
        /\ cardNumber' = id
        /\ selectedAccount' = ""
        /\ UNCHANGED <<authenticated, balances, cashOnHand>>
        /\ pinOk' = FALSE /\ acctChosen' = FALSE /\ wrongPins' = 0
        /\ Observe("insertCard", id, 0, "none", FALSE, 0, <<"readCard">>)

insertCard_keepAccount ==
    \E id \in ReaderIds :
        /\ cardNumber' = id
        /\ authenticated' = FALSE
        /\ UNCHANGED <<selectedAccount, balances, cashOnHand>>
        /\ pinOk' = FALSE /\ acctChosen' = FALSE /\ wrongPins' = 0
        /\ Observe("insertCard", id, 0, "none", FALSE, 0, <<"readCard">>)

insertCard ==
    \E id \in ReaderIds :
        /\ cardNumber' = id
        /\ authenticated' = FALSE
        /\ selectedAccount' = ""
        /\ UNCHANGED <<balances, cashOnHand>>
        /\ pinOk' = FALSE /\ acctChosen' = FALSE /\ wrongPins' = 0
        /\ Observe("insertCard", id, 0, "none", FALSE, 0, <<"readCard">>)

enterPin ==
    \E pin \in PinInputs :
        IF cardNumber = ""
        THEN /\ UNCHANGED <<prog, acctChosen, wrongPins>>
             /\ pinOk' = FALSE
             /\ Observe("enterPin", pin, 0, "NoCardInserted", FALSE, 0, <<>>)
        ELSE LET r == validatePin(cardNumber, pin) IN
             /\ authenticated' = r
             /\ UNCHANGED <<cardNumber, selectedAccount, balances, cashOnHand,
                            acctChosen>>
             /\ pinOk' = r
             /\ wrongPins' = IF r THEN 0
                             ELSE IF wrongPins < MaxWrongPins THEN wrongPins + 1
                             ELSE wrongPins
             /\ Observe("enterPin", pin, 0, "none", r, 0, <<"validatePin">>)

selectAccount_assignFirst ==
    \E acctId \in AccountInputs :
        /\ selectedAccount' = acctId
        /\ UNCHANGED <<cardNumber, authenticated, balances, cashOnHand,
                       pinOk, wrongPins>>
        /\ IF ~authenticated
           THEN /\ UNCHANGED acctChosen
                /\ Observe("selectAccount", acctId, 0, "NotAuthenticated", FALSE, 0, <<>>)
           ELSE /\ acctChosen' = TRUE
                /\ Observe("selectAccount", acctId, 0, "none", FALSE, 0, <<>>)

selectAccount_cardCheck ==
    \E acctId \in AccountInputs :
        IF cardNumber = ""
        THEN /\ UNCHANGED <<prog, pinOk, acctChosen, wrongPins>>
             /\ Observe("selectAccount", acctId, 0, "NotAuthenticated", FALSE, 0, <<>>)
        ELSE /\ selectedAccount' = acctId
             /\ UNCHANGED <<cardNumber, authenticated, balances, cashOnHand,
                            pinOk, wrongPins>>
             /\ acctChosen' = TRUE
             /\ Observe("selectAccount", acctId, 0, "none", FALSE, 0, <<>>)

selectAccount ==
    \E acctId \in AccountInputs :
        IF ~authenticated
        THEN /\ UNCHANGED <<prog, pinOk, acctChosen, wrongPins>>
             /\ Observe("selectAccount", acctId, 0, "NotAuthenticated", FALSE, 0, <<>>)
        ELSE /\ selectedAccount' = acctId
             /\ UNCHANGED <<cardNumber, authenticated, balances, cashOnHand,
                            pinOk, wrongPins>>
             /\ acctChosen' = TRUE
             /\ Observe("selectAccount", acctId, 0, "none", FALSE, 0, <<>>)

getBalance ==
    /\ UNCHANGED <<prog, pinOk, acctChosen, wrongPins>>
    /\ IF selectedAccount = ""
       THEN Observe("getBalance", "", 0, "NoAccountSelected", FALSE, 0, <<>>)
       ELSE IF ~knownAccount(balances, selectedAccount)
       THEN Observe("getBalance", "", 0, "UnknownAccount", FALSE, 0, <<"getBalance">>)
       ELSE Observe("getBalance", "", 0, "none", FALSE, balances[selectedAccount],
                    <<"getBalance">>)

\* The checks deposit makes before delegating, in the code's order.
depositError_amountFirst(amount) ==
    IF amount <= 0 THEN "InvalidAmount"
    ELSE IF selectedAccount = "" THEN "NoAccountSelected"
    ELSE "none"

depositError(amount) ==
    IF selectedAccount = "" THEN "NoAccountSelected"
    ELSE IF amount <= 0 THEN "InvalidAmount"
    ELSE "none"

deposit ==
    \E amount \in Amounts :
        LET e == depositError(amount) IN
        /\ UNCHANGED <<cardNumber, authenticated, selectedAccount, cashOnHand,
                       pinOk, acctChosen, wrongPins>>
        /\ IF e # "none"
           THEN /\ UNCHANGED balances
                /\ Observe("deposit", "", amount, e, FALSE, 0, <<>>)
           ELSE /\ credit(balances, selectedAccount, amount)[selectedAccount] <= MaxBalance
                /\ balances' = credit(balances, selectedAccount, amount)
                /\ Observe("deposit", "", amount, "none", FALSE, 0, <<"credit">>)

\* The checks withdraw makes before debiting, in the code's order.
withdrawError_cashFirst(amount) ==
    IF selectedAccount = "" THEN "NoAccountSelected"
    ELSE IF amount <= 0 THEN "InvalidAmount"
    ELSE IF ~knownAccount(balances, selectedAccount) THEN "UnknownAccount"
    ELSE IF ~hasCash(amount) THEN "InsufficientCash"
    ELSE IF amount > balances[selectedAccount] THEN "InsufficientFunds"
    ELSE "none"

withdrawError_strict(amount) ==
    IF selectedAccount = "" THEN "NoAccountSelected"
    ELSE IF amount <= 0 THEN "InvalidAmount"
    ELSE IF ~knownAccount(balances, selectedAccount) THEN "UnknownAccount"
    ELSE IF amount >= balances[selectedAccount] THEN "InsufficientFunds"
    ELSE IF ~hasCash(amount) THEN "InsufficientCash"
    ELSE "none"

withdrawError_negativeOnly(amount) ==
    IF selectedAccount = "" THEN "NoAccountSelected"
    ELSE IF amount < 0 THEN "InvalidAmount"
    ELSE IF ~knownAccount(balances, selectedAccount) THEN "UnknownAccount"
    ELSE IF amount > balances[selectedAccount] THEN "InsufficientFunds"
    ELSE IF ~hasCash(amount) THEN "InsufficientCash"
    ELSE "none"

withdrawError_noFundsCheck(amount) ==
    IF selectedAccount = "" THEN "NoAccountSelected"
    ELSE IF amount <= 0 THEN "InvalidAmount"
    ELSE IF ~knownAccount(balances, selectedAccount) THEN "UnknownAccount"
    ELSE IF ~hasCash(amount) THEN "InsufficientCash"
    ELSE "none"

withdrawError_noCashCheck(amount) ==
    IF selectedAccount = "" THEN "NoAccountSelected"
    ELSE IF amount <= 0 THEN "InvalidAmount"
    ELSE IF ~knownAccount(balances, selectedAccount) THEN "UnknownAccount"
    ELSE IF amount > balances[selectedAccount] THEN "InsufficientFunds"
    ELSE "none"

withdrawError(amount) ==
    IF selectedAccount = "" THEN "NoAccountSelected"
    ELSE IF amount <= 0 THEN "InvalidAmount"
    ELSE IF ~knownAccount(balances, selectedAccount) THEN "UnknownAccount"
    ELSE IF amount > balances[selectedAccount] THEN "InsufficientFunds"
    ELSE IF ~hasCash(amount) THEN "InsufficientCash"
    ELSE "none"

\* The collaborator calls withdraw has issued when it stops with error e.
withdrawCalls(e) ==
    CASE e \in {"NoAccountSelected", "InvalidAmount"} -> <<>>
      [] e \in {"UnknownAccount", "InsufficientFunds"} -> <<"getBalance">>
      [] e = "InsufficientCash" -> <<"getBalance", "hasCash">>
      [] OTHER -> <<"getBalance", "hasCash", "debit", "dispenseCash">>

withdraw_debitEarly ==
    \E amount \in Amounts :
        LET e == withdrawError(amount) IN
        /\ UNCHANGED <<cardNumber, authenticated, selectedAccount,
                       pinOk, acctChosen, wrongPins>>
        /\ IF e = "InsufficientCash"
           THEN /\ balances' = debit(balances, selectedAccount, amount)
                /\ UNCHANGED cashOnHand
                /\ Observe("withdraw", "", amount, e, FALSE, 0,
                           <<"getBalance", "debit", "hasCash">>)
           ELSE IF e # "none"
           THEN /\ UNCHANGED <<balances, cashOnHand>>
                /\ Observe("withdraw", "", amount, e, FALSE, 0, withdrawCalls(e))
           ELSE /\ balances' = debit(balances, selectedAccount, amount)
                /\ cashOnHand' = cashOnHand - amount
                /\ Observe("withdraw", "", amount, "none", FALSE, 0,
                           withdrawCalls("none"))

withdraw ==
    \E amount \in Amounts :
        LET e == withdrawError(amount) IN
        /\ UNCHANGED <<cardNumber, authenticated, selectedAccount,
                       pinOk, acctChosen, wrongPins>>
        /\ IF e # "none"
           THEN /\ UNCHANGED <<balances, cashOnHand>>
                /\ Observe("withdraw", "", amount, e, FALSE, 0, withdrawCalls(e))
           ELSE /\ balances' = debit(balances, selectedAccount, amount)
                /\ IF amount > cashOnHand
                   THEN /\ UNCHANGED cashOnHand
                        /\ Observe("withdraw", "", amount, "NotEnoughATMCash", FALSE, 0,
                                   withdrawCalls("none"))
                   ELSE /\ cashOnHand' = cashOnHand - amount
                        /\ Observe("withdraw", "", amount, "none", FALSE, 0,
                                   withdrawCalls("none"))

ejectCard_keepAccount ==
    /\ cardNumber' = ""
    /\ authenticated' = FALSE
    /\ UNCHANGED <<selectedAccount, balances, cashOnHand>>
    /\ pinOk' = FALSE /\ acctChosen' = FALSE /\ wrongPins' = 0
    /\ Observe("ejectCard", "", 0, "none", FALSE, 0, <<"ejectCard">>)

ejectCard_keepCard ==
    /\ authenticated' = FALSE
    /\ selectedAccount' = ""
    /\ UNCHANGED <<cardNumber, balances, cashOnHand>>
    /\ pinOk' = FALSE /\ acctChosen' = FALSE /\ wrongPins' = 0
    /\ Observe("ejectCard", "", 0, "none", FALSE, 0, <<"ejectCard">>)

ejectCard ==
    /\ cardNumber' = ""
    /\ authenticated' = FALSE
    /\ selectedAccount' = ""
    /\ UNCHANGED <<balances, cashOnHand>>
    /\ pinOk' = FALSE /\ acctChosen' = FALSE /\ wrongPins' = 0
    /\ Observe("ejectCard", "", 0, "none", FALSE, 0, <<"ejectCard">>)

Next ==
    \/ insertCard
    \/ enterPin
    \/ selectAccount
    \/ getBalance
    \/ deposit
    \/ withdraw
    \/ ejectCard

Spec == Init /\ [][Next]_vars

\* withdraw against an ICashDispenser whose dispenseCash throws although
\* hasCash answered true (a device fault): the debit of line 88 has been made,
\* the exception of line 89 propagates, the stock is not lowered.
withdrawDispenseFault ==
    \E amount \in Amounts :
        /\ withdrawError(amount) = "none"
        /\ debited + amount <= MaxDebited
        /\ balances' = debit(balances, selectedAccount, amount)
        /\ UNCHANGED <<cardNumber, authenticated, selectedAccount, cashOnHand,
                       pinOk, acctChosen, wrongPins>>
        /\ Observe("withdraw", "", amount, "DispenserFault", FALSE, 0,
                   withdrawCalls("none"))

NextFaultyDispenser ==
    \/ Next
    \/ withdrawDispenseFault

\* The controller wired to a dispenser that may fail while dispensing.
SpecFaultyDispenser == Init /\ [][NextFaultyDispenser]_vars

TypeOK ==
    /\ cardNumber \in ReaderIds
    /\ authenticated \in BOOLEAN
    /\ selectedAccount \in AccountInputs
    /\ DOMAIN balances \subseteq AccountInputs
    /\ \A a \in DOMAIN balances : balances[a] \in Int
    /\ cashOnHand \in Int
\* ------------------------------------------------------------------ claims
\* The session fields of a state record or of the current state.
SessionUnchanged ==
    /\ cardNumber = pre.cardNumber
    /\ authenticated = pre.authenticated
    /\ selectedAccount = pre.selectedAccount

MoneyUnchanged ==
    /\ balances = pre.balances
    /\ cashOnHand = pre.cashOnHand

\* The last call started with an account selected that the ledger knows.
PreExistingAccount ==
    /\ pre.selectedAccount # ""
    /\ pre.selectedAccount \in DOMAIN pre.balances

PreBalance == pre.balances[pre.selectedAccount]

\* C1: in every reachable state a non-empty selectedAccount implies
\* authenticated == true, also after enterPin returned false with an account
\* already selected.
C1_SelectedImpliesAuthenticated ==
    selectedAccount # "" => authenticated

\* C2: in every reachable state authenticated == true implies that the stored
\* card identifier is non-empty, also when the reader yields an empty identifier.
C2_AuthenticatedImpliesCard ==
    authenticated => cardNumber # ""

C2_Witness ==
    /\ authenticated
    /\ last.op = "enterPin"
    /\ last.ok
    /\ pre.cardNumber # ""
    /\ pre.wrongPins > 0

\* C3: with an existing account selected and amount > 0, withdraw fails with
\* InsufficientFunds exactly when amount > balance (whatever the stock is) and
\* with InsufficientCash exactly when amount <= balance and amount > stock.
C3_WithdrawErrorKinds ==
    (last.op = "withdraw" /\ PreExistingAccount /\ last.amt > 0) =>
        /\ (last.err = "InsufficientFunds") <=> (last.amt > PreBalance)
        /\ (last.err = "InsufficientCash") <=>
               (last.amt <= PreBalance /\ last.amt > pre.cashOnHand)

C3_Witness ==
    /\ last.op = "withdraw"
    /\ PreExistingAccount
    /\ last.amt > PreBalance
    /\ last.amt > pre.cashOnHand
    /\ last.err = "InsufficientFunds"

\* C4: with an existing account selected, withdraw(amount) succeeds whenever
\* 0 < amount <= balance and amount <= stock; afterwards the balance of the
\* selected account and the stock are each exactly amount lower, every other
\* balance and the session fields are unchanged.
C4_WithdrawSucceeds ==
    (/\ last.op = "withdraw"
     /\ PreExistingAccount
     /\ 0 < last.amt
     /\ last.amt <= PreBalance
     /\ last.amt <= pre.cashOnHand) =>
        /\ last.err = "none"
        /\ DOMAIN balances = DOMAIN pre.balances
        /\ balances[pre.selectedAccount] = PreBalance - last.amt
        /\ \A a \in DOMAIN balances \ {pre.selectedAccount} :
               balances[a] = pre.balances[a]
        /\ cashOnHand = pre.cashOnHand - last.amt
        /\ SessionUnchanged

C4_Witness ==
    /\ last.op = "withdraw"
    /\ last.err = "none"
    /\ PreExistingAccount
    /\ last.amt = PreBalance
    /\ last.amt = pre.cashOnHand

\* C5: whenever enterPin, selectAccount, getBalance, deposit or withdraw
\* reports an error (throws), the session fields, every ledger balance and
\* the dispenser stock are the same after the call as before it.
C5_ErrorLeavesStateUnchanged ==
    (/\ last.op \in {"enterPin", "selectAccount", "getBalance", "deposit", "withdraw"}
     /\ last.err # "none") =>
        /\ SessionUnchanged
        /\ MoneyUnchanged

C5_Witness ==
    /\ last.op = "withdraw"
    /\ last.err = "InsufficientCash"
    /\ pre.cashOnHand > 0
    /\ SessionUnchanged
    /\ MoneyUnchanged

\* C6 as stated: deposit(amount) and withdraw(amount) with amount <= 0 fail
\* with InvalidAmount in every session state, whether or not an account is
\* selected.
C6_Original ==
    (last.op \in {"deposit", "withdraw"} /\ last.amt <= 0) =>
        last.err = "InvalidAmount"

\* C6 as amended: deposit(amount) and withdraw(amount) with amount <= 0 fail
\* with InvalidAmount whenever selectedAccount is non-empty, for every balance
\* of the account and also when the ledger does not know it; with
\* selectedAccount empty they fail with NoAccountSelected instead.
C6_InvalidAmount ==
    (last.op \in {"deposit", "withdraw"} /\ last.amt <= 0) =>
        /\ last.err = IF pre.selectedAccount = "" THEN "NoAccountSelected"
                      ELSE "InvalidAmount"
        /\ last.calls = <<>>
        /\ MoneyUnchanged

C6_Witness ==
    /\ last.op = "withdraw"
    /\ last.amt = 0
    /\ PreExistingAccount
    /\ PreBalance = 0
    /\ last.err = "InvalidAmount"

\* C7: while no selectAccount has succeeded since the last insertCard or
\* ejectCard, getBalance, deposit(amount) and withdraw(amount) fail with
\* NoAccountSelected for every amount and invoke no BankGateway or
\* CashDispenser operation.
C7_NoAccountSelected ==
    (last.op \in {"getBalance", "deposit", "withdraw"} /\ ~pre.acctChosen) =>
        /\ last.err = "NoAccountSelected"
        /\ last.calls = <<>>
        /\ MoneyUnchanged

C7_Witness ==
    /\ last.op = "deposit"
    /\ last.amt <= 0
    /\ ~pre.acctChosen
    /\ pre.authenticated
    /\ last.err = "NoAccountSelected"

\* C8: selectAccount fails with NotAuthenticated and leaves selectedAccount
\* unchanged whenever the most recent enterPin since the last insertCard did
\* not return true; it succeeds only when authenticated == true.
C8_SelectNeedsPin ==
    (last.op = "selectAccount") =>
        /\ ~pre.pinOk =>
               (last.err = "NotAuthenticated" /\ selectedAccount = pre.selectedAccount)
        /\ last.err = "none" => pre.authenticated

C8_Witness ==
    /\ last.op = "selectAccount"
    /\ pre.cardNumber # ""
    /\ pre.wrongPins > 0
    /\ last.err = "NotAuthenticated"

\* C9: ejectCard never errors and always leaves cardId empty, authenticated
\* false and selectedAccount empty; right after it enterPin fails with
\* NoCardInserted, selectAccount with NotAuthenticated and getBalance with
\* NoAccountSelected, as on a fresh controller, and a second consecutive
\* ejectCard leaves the session unchanged.
C9_EjectResets ==
    /\ ENABLED ejectCard
    /\ (last.op = "ejectCard") =>
           /\ last.err = "none"
           /\ cardNumber = "" /\ ~authenticated /\ selectedAccount = ""
    /\ (pre.lastOp \in {"ejectCard", "init"}) =>
           /\ last.op = "enterPin" => last.err = "NoCardInserted"
           /\ last.op = "selectAccount" => last.err = "NotAuthenticated"
           /\ last.op = "getBalance" => last.err = "NoAccountSelected"
    /\ (pre.lastOp = "ejectCard" /\ last.op = "ejectCard") =>
           (SessionUnchanged /\ MoneyUnchanged)

C9_Witness ==
    /\ pre.lastOp = "ejectCard"
    /\ last.op = "getBalance"
    /\ last.err = "NoAccountSelected"
    /\ DOMAIN balances # {"ACC-111"}

\* C10: with a card present, enterPin with a wrong PIN returns false, leaves
\* authenticated == false and cardId unchanged; after any number of wrong
\* attempts enterPin with the card's registered PIN returns true and sets
\* authenticated == true.
C10_PinRetry ==
    (last.op = "enterPin" /\ pre.cardNumber # "") =>
        LET registered == pre.cardNumber \in DOMAIN pins
            right == registered /\ pins[pre.cardNumber] = last.str
        IN  /\ last.err = "none"
            /\ cardNumber = pre.cardNumber
            /\ ~right => (~last.ok /\ ~authenticated)
            /\ right => (last.ok /\ authenticated)

C10_Witness ==
    /\ last.op = "enterPin"
    /\ pre.wrongPins >= 2
    /\ last.ok
    /\ authenticated
\* The collaborator calls of the last controller call contain call name c.
Called(c) == \E i \in 1..Len(last.calls) : last.calls[i] = c

\* C11: insertCard in any session state leaves authenticated == false and
\* selectedAccount empty, sets cardId to the identifier the reader returned,
\* and changes no ledger balance and no dispenser stock.
C11_InsertResets ==
    /\ ENABLED insertCard
    /\ (last.op = "insertCard") =>
           /\ last.err = "none"
           /\ ~authenticated
           /\ selectedAccount = ""
           /\ cardNumber = last.str
           /\ MoneyUnchanged

C11_Witness ==
    /\ last.op = "insertCard"
    /\ pre.cardNumber # ""
    /\ pre.authenticated
    /\ pre.selectedAccount # ""
    /\ cardNumber # pre.cardNumber

\* C12: when authenticated, selectAccount succeeds for an accountId the ledger
\* does not know, and with such an account selected getBalance, deposit
\* (amount > 0) and withdraw (amount > 0) each fail with the collaborator's
\* unknown-account error and leave the ledger unchanged.
C12_LazyExistenceCheck ==
    /\ (last.op = "selectAccount" /\ pre.authenticated) =>
           (last.err = "none" /\ selectedAccount = last.str)
    /\ (/\ last.op \in {"getBalance", "deposit", "withdraw"}
        /\ pre.selectedAccount # ""
        /\ pre.selectedAccount \notin DOMAIN pre.balances
        /\ last.op \in {"deposit", "withdraw"} => last.amt > 0) =>
           (last.err = "UnknownAccount" /\ balances = pre.balances)

\* C13: when authenticated, a selectAccount that returns without error leaves
\* selectedAccount non-empty for every accountId, the empty string included,
\* so that a following getBalance, deposit or withdraw does not fail with
\* NoAccountSelected.
C13_SelectReachesAccountSelected ==
    /\ (last.op = "selectAccount" /\ pre.authenticated /\ last.err = "none") =>
           selectedAccount # ""
    /\ (/\ last.op \in {"getBalance", "deposit", "withdraw"}
        /\ pre.lastOp = "selectAccount"
        /\ pre.acctChosen) =>
           last.err # "NoAccountSelected"

\* C14: with an existing account selected, getBalance changes no session,
\* ledger or stock state and returns the ledger's current value, which equals
\* the starting balance plus all successful deposits minus all successful
\* withdrawals; a successful deposit(amount) raises it by exactly amount.
C14_BalanceAccounting ==
    /\ \A a \in DOMAIN balances : balances[a] = StartBalance(a) + net[a]
    /\ (last.op = "getBalance" /\ PreExistingAccount) =>
           /\ last.err = "none"
           /\ last.val = balances[selectedAccount]
           /\ last.val = StartBalance(selectedAccount) + net[selectedAccount]
           /\ SessionUnchanged
           /\ MoneyUnchanged
    /\ (last.op = "deposit" /\ PreExistingAccount /\ last.amt > 0) =>
           /\ last.err = "none"
           /\ balances[selectedAccount] = PreBalance + last.amt
           /\ cashOnHand = pre.cashOnHand
           /\ SessionUnchanged

C14_Witness ==
    /\ last.op = "getBalance"
    /\ last.err = "none"
    /\ pre.lastOp = "deposit"
    /\ debited > 0
    /\ net[selectedAccount] > 0
    /\ last.val = InitialBalance + net[selectedAccount]

\* C15: the machine has no stuck state: in every reachable state ejectCard is
\* enabled and leads to Idle, insertCard is enabled, and in every card cycle
\* insertCard, enterPin with the card's registered PIN and selectAccount of an
\* existing account lead to CardPresent, Authenticated and AccountSelected.
C15_NoStuckState ==
    /\ ENABLED ejectCard
    /\ ENABLED insertCard
    /\ (last.op = "ejectCard") =>
           (cardNumber = "" /\ ~authenticated /\ selectedAccount = "")
    /\ (last.op = "insertCard" /\ last.str # "") =>
           (cardNumber # "" /\ ~authenticated /\ selectedAccount = "")
    /\ (/\ last.op = "enterPin"
        /\ pre.cardNumber \in DOMAIN pins
        /\ last.str = pins[pre.cardNumber]) =>
           (last.err = "none" /\ authenticated /\ cardNumber = pre.cardNumber)
    /\ (/\ last.op = "selectAccount"
        /\ pre.authenticated
        /\ last.str \in DOMAIN balances) =>
           /\ last.err = "none"
           /\ selectedAccount = last.str
           /\ authenticated
           /\ cardNumber # ""

C15_Witness ==
    /\ cycles >= 2
    /\ last.op = "selectAccount"
    /\ last.err = "none"
    /\ selectedAccount \in DOMAIN balances
    /\ authenticated
    /\ cardNumber # ""

\* The order in which withdraw addresses its collaborators.
WithdrawOrder == <<"getBalance", "hasCash", "debit", "dispenseCash">>

\* C16: within one withdraw the collaborator calls occur in the order
\* getBalance, hasCash, debit, dispenseCash; debit and dispenseCash are issued
\* only after the funds check and the cash check passed, debit first, so that
\* when dispenseCash fails the account is already charged by amount while the
\* stock is unchanged.
C16_WithdrawCallOrder ==
    (last.op = "withdraw") =>
        /\ \E n \in 0..Len(WithdrawOrder) : last.calls = SubSeq(WithdrawOrder, 1, n)
        /\ (Called("debit") \/ Called("dispenseCash")) =>
               /\ last.calls = WithdrawOrder
               /\ PreExistingAccount
               /\ last.amt <= PreBalance
               /\ last.amt <= pre.cashOnHand
               /\ balances[selectedAccount] = PreBalance - last.amt
        /\ ~Called("debit") => (last.err # "none" /\ MoneyUnchanged)
        /\ (Called("dispenseCash") /\ last.err # "none") =>
               /\ balances[selectedAccount] = PreBalance - last.amt
               /\ cashOnHand = pre.cashOnHand

C16_Witness ==
    /\ last.op = "withdraw"
    /\ last.err = "DispenserFault"
    /\ last.calls = WithdrawOrder
    /\ last.amt > 0
    /\ balances[selectedAccount] = PreBalance - last.amt
    /\ cashOnHand = pre.cashOnHand

\* C17: with a single controller driving the ledger and non-negative starting
\* balances, no sequence of controller operations makes a balance negative.
C17_NoNegativeBalance ==
    \A a \in DOMAIN balances : balances[a] >= 0

C17_Witness ==
    /\ last.op = "withdraw"
    /\ last.err = "none"
    /\ last.amt > 0
    /\ balances[selectedAccount] = 0

\* C18: with the in-memory dispenser the stock is never negative, the total
\* debited from the ledger equals the total dispensed (initial stock minus
\* current stock), dispenseCash never fails when reached from withdraw, and
\* deposit never changes the stock.
C18_StockAccounting ==
    /\ cashOnHand >= 0
    /\ debited = InitialCash - cashOnHand
    /\ (last.op = "withdraw" /\ Called("dispenseCash")) => last.err = "none"
    /\ (last.op = "deposit") => cashOnHand = pre.cashOnHand

C18_Witness ==
    /\ last.op = "withdraw"
    /\ last.err = "none"
    /\ cashOnHand = 0
    /\ debited = InitialCash
    /\ Cardinality(DOMAIN balances) = 2

\* C19: the controller invokes BankGateway getBalance, credit or debit and
\* CashDispenser dispenseCash only in states where authenticated == true for
\* the held card: no balance read, deposit or withdrawal goes through while
\* the latest PIN attempt for the held card was wrong.
C19_MoneyCallsNeedAuthentication ==
    (Called("getBalance") \/ Called("credit") \/ Called("debit")
        \/ Called("dispenseCash")) =>
        (pre.authenticated /\ pre.pinOk)
====
